---- MODULE Spec2Model ----
(***************************************************************************)
(* A model of the mbplox lexer: the character scanner (src/src/scan.rs),   *)
(* the position tracker (src/src/place.rs) and the lexical analyzer        *)
(* (src/src/lex.rs).  A character is a one-character string, a text is a   *)
(* sequence of characters, and a predicate over characters is the set of   *)
(* the characters that satisfy it.                                         *)
(***************************************************************************)
EXTENDS Integers, Sequences, FiniteSets, TLC

VARIABLES
    source,            \* the argument of lex(): the whole input text
    debug_assertions,  \* the build configuration: TRUE in a debug build
    scan,              \* the Scan object of lex()
    result,            \* the Vec<Result<Token, Error>> of lex()
    pc,                \* "loop" while lex() is in its while loop, "done" once it returned
    call,              \* history: the last Scan method a client called, with its argument and return value
    mark,              \* history: how many characters were consumed when start_token() was last called
    taken,             \* history: the characters take() has returned to a client of the scanner
    lexer,             \* scanner.rs: the Lexer that its lex() returns
    pulled,            \* scanner.rs: the items pulled from the Lexer so far
    lpc,               \* scanner.rs: "pull" while the Lexer can be pulled, "end" after None, "panic" after a panic
    parsed,            \* parse.rs: the return value of parse_expr() on the tokens of result
    advanced           \* place.rs: a Place advanced over the characters taken from the scanner

vars == <<source, debug_assertions, scan, result, pc, call, mark, taken,
          lexer, pulled, lpc, parsed, advanced>>

(***************************************************************************)
(* Bounds of the model.                                                    *)
(***************************************************************************)
MaxLen == 2
MaxLenErr == 4
MaxLenTok == 4
MaxLenNum == 6
MaxLenStr == 6
MaxLenHash == 7
MaxLenTab == 9
MaxLenCom == 6
MaxPieces == 3
MaxLenOp == 5
MaxLenScan == 4
MaxLenBoth == 4
MaxPiecesParse == 3
MaxLenPart == 5

(***************************************************************************)
(* Character classes.                                                      *)
(***************************************************************************)
\* Option<char>::None
None == ""

Digits == {"0", "1", "2", "3", "4", "5", "6", "7", "8", "9"}

AsciiAlphabetic ==
    {"a", "b", "c", "d", "e", "f", "g", "h", "i", "j", "k", "l", "m",
     "n", "o", "p", "q", "r", "s", "t", "u", "v", "w", "x", "y", "z",
     "A", "B", "C", "D", "E", "F", "G", "H", "I", "J", "K", "L", "M",
     "N", "O", "P", "Q", "R", "S", "T", "U", "V", "W", "X", "Y", "Z"}

AsciiAlphanumeric == AsciiAlphabetic \cup Digits

Whitespace == {"\n", " ", "\t", "\r"}

\* Every character the model's inputs are drawn from.
Alphabet ==
    {"\n", " ", "\t", "\r", "+", "*", "-", ".", "/", ";", ",", "!", "=",
     "1", "{", "}", "(", ")", "<", ">", "\"", "o", "r", "_", "O", "#",
     "@", "\\"}

\* Every character: the characters of the inputs and the ASCII letters and digits.
Char == Alphabet \cup AsciiAlphanumeric

\* All texts over the characters cs of length at most n.
TextsUpTo(cs, n) == UNION {[1..k -> cs] : k \in 0..n}

(***************************************************************************)
(* place.rs                                                                *)
(***************************************************************************)
Place_new(line, column) == [line |-> line, column |-> column]

file_start == Place_new(1, 1)

RECURSIVE AdvanceTabLoop(_)
AdvanceTabLoop(column) ==
    IF column % 8 # 1 THEN AdvanceTabLoop(column + 1) ELSE column

\* A slip in advance(): a tab moves eight columns on.
Place_advance_TabAddsEight(p, c) ==
    IF c = "\n" THEN [line |-> p.line + 1, column |-> 1]
    ELSE IF c = "\t" THEN [p EXCEPT !.column = p.column + 8]
    ELSE [p EXCEPT !.column = p.column + 1]

Place_advance(p, c) ==
    IF c = "\n" THEN [line |-> p.line + 1, column |-> 1]
    ELSE IF c = "\t" THEN [p EXCEPT !.column = AdvanceTabLoop(p.column + 1)]
    ELSE [p EXCEPT !.column = p.column + 1]

(***************************************************************************)
(* scan.rs                                                                 *)
(***************************************************************************)
Scan_new(src) ==
    [input |-> src,
     lookahead |-> <<>>,
     current_token |-> <<>>,
     line_number |-> 1,
     column |-> 1,
     token_start_line |-> 1,
     token_start_column |-> 1]

\* A slip in start_token(): the start of the token is not recorded.
start_token_KeepsStart(s) == [s EXCEPT !.current_token = <<>>]

\* A slip in start_token(): the accumulator is not cleared.
start_token_KeepsText(s) ==
    [s EXCEPT !.token_start_line = s.line_number,
              !.token_start_column = s.column]

start_token(s) ==
    [s EXCEPT !.current_token = <<>>,
              !.token_start_line = s.line_number,
              !.token_start_column = s.column]

current_token(s) == s.current_token

token_start(s) == Place_new(s.token_start_line, s.token_start_column)

next_column(s) == s.column

\* A slip in the tab loop of take(): the tab stops are the multiples of 8.
RECURSIVE TakeTabLoop_StopsAtMultiples(_)
TakeTabLoop_StopsAtMultiples(column) ==
    LET c == column + 1
    IN  IF c % 8 = 0 THEN c ELSE TakeTabLoop_StopsAtMultiples(c)

\* The tab loop of take(): add one, and again until the column is at a tab stop.
RECURSIVE TakeTabLoop(_)
TakeTabLoop(column) ==
    LET c == column + 1
    IN  IF c % 8 = 1 THEN c ELSE TakeTabLoop(c)

\* A slip in take(): a newline puts the column back to 0.
TakeChar_ZeroColumn(s, c) ==
    LET moved ==
            IF c = "\n" THEN [s EXCEPT !.line_number = s.line_number + 1, !.column = 0]
            ELSE IF c = "\t" THEN [s EXCEPT !.column = TakeTabLoop(s.column)]
            ELSE [s EXCEPT !.column = s.column + 1]
    IN  [moved EXCEPT !.current_token = Append(s.current_token, c)]

\* The position and accumulator update of take() once the character c is drawn.
TakeChar(s, c) ==
    LET moved ==
            IF c = "\n" THEN [s EXCEPT !.line_number = s.line_number + 1, !.column = 1]
            ELSE IF c = "\t" THEN [s EXCEPT !.column = TakeTabLoop(s.column)]
            ELSE [s EXCEPT !.column = s.column + 1]
    IN  [moved EXCEPT !.current_token = Append(s.current_token, c)]

take(s) ==
    IF s.lookahead = <<>>
    THEN IF s.input = <<>>
         THEN [scan |-> s, ret |-> None]
         ELSE [scan |-> TakeChar([s EXCEPT !.input = Tail(s.input)], Head(s.input)),
               ret |-> Head(s.input)]
    ELSE [scan |-> TakeChar([s EXCEPT !.lookahead = Tail(s.lookahead)], Head(s.lookahead)),
          ret |-> Head(s.lookahead)]

\* A slip in peek_nth(): the characters it reads ahead join the current token.
RECURSIVE peek_nth_Accumulates(_, _)
peek_nth_Accumulates(s, n) ==
    IF Len(s.lookahead) <= n
    THEN IF s.input # <<>>
         THEN peek_nth_Accumulates(
                  [s EXCEPT !.lookahead = Append(s.lookahead, Head(s.input)),
                            !.current_token = Append(s.current_token, Head(s.input)),
                            !.input = Tail(s.input)], n)
         ELSE [scan |-> s, ret |-> None]
    ELSE [scan |-> s, ret |-> s.lookahead[n + 1]]

\* A slip in peek_nth(): a character read ahead goes to the front of the buffer.
RECURSIVE peek_nth_PushesFront(_, _)
peek_nth_PushesFront(s, n) ==
    IF Len(s.lookahead) <= n
    THEN IF s.input # <<>>
         THEN peek_nth_PushesFront(
                  [s EXCEPT !.lookahead = <<Head(s.input)>> \o s.lookahead,
                            !.input = Tail(s.input)], n)
         ELSE [scan |-> s, ret |-> None]
    ELSE [scan |-> s, ret |-> s.lookahead[n + 1]]

RECURSIVE peek_nth(_, _)
peek_nth(s, n) ==
    IF Len(s.lookahead) <= n
    THEN IF s.input # <<>>
         THEN peek_nth([s EXCEPT !.lookahead = Append(s.lookahead, Head(s.input)),
                                 !.input = Tail(s.input)], n)
         ELSE [scan |-> s, ret |-> None]
    ELSE [scan |-> s, ret |-> s.lookahead[n + 1]]

peek(s) == peek_nth(s, 0)

\* Option<(char, char)>::None
None2 == <<>>

\* A slip in peek2(): when there are not two characters the lookahead is dropped.
peek2_DropsLookahead(s) ==
    LET p == peek_nth(s, 1)
    IN  IF p.ret # None
        THEN [scan |-> p.scan, ret |-> <<p.scan.lookahead[1], p.scan.lookahead[2]>>]
        ELSE [scan |-> [p.scan EXCEPT !.lookahead = <<>>], ret |-> None2]

peek2(s) ==
    LET p == peek_nth(s, 1)
    IN  IF p.ret # None
        THEN [scan |-> p.scan, ret |-> <<p.scan.lookahead[1], p.scan.lookahead[2]>>]
        ELSE [scan |-> p.scan, ret |-> None2]

\* A slip in take_if(): a character that fails the test is taken all the same.
take_if_TakesAnyway(s, f) ==
    LET p == peek(s)
        t == take(p.scan)
    IN  IF p.ret # None /\ p.ret \in f
        THEN t
        ELSE [scan |-> t.scan, ret |-> None]

take_if(s, f) ==
    LET p == peek(s)
    IN  IF p.ret # None /\ p.ret \in f
        THEN take(p.scan)
        ELSE [scan |-> p.scan, ret |-> None]

RECURSIVE take_while(_, _)
take_while(s, f) ==
    LET t == take_if(s, f)
    IN  IF t.ret # None THEN take_while(t.scan, f) ELSE t.scan

\* A slip in take_until(): the terminator is left unconsumed.
take_until_StopsBefore(s, f) == take_while(s, Char \ f)

RECURSIVE take_until(_, _)
take_until(s, f) ==
    LET t == take(s)
    IN  IF t.ret = None THEN t.scan
        ELSE IF t.ret \in f THEN t.scan
        ELSE take_until(t.scan, f)

take_exactly(s, c) ==
    LET t == take_if(s, {c})
    IN  [scan |-> t.scan, ret |-> t.ret # None]

is_empty(s) ==
    LET p == peek(s)
    IN  [scan |-> p.scan, ret |-> p.ret = None]

(***************************************************************************)
(* lex.rs: tokens and errors                                               *)
(***************************************************************************)
NoText == <<>>
NoValue == [mant |-> 0, exp10 |-> 0]

\* A Tok without payload, and the three Toks that carry one.
Tok(kind) == [kind |-> kind, text |-> NoText, val |-> NoValue]
Tok_String(str) == [kind |-> "String", text |-> str, val |-> NoValue]
Tok_Number(v) == [kind |-> "Number", text |-> NoText, val |-> v]
Tok_Identifier(str) == [kind |-> "Identifier", text |-> str, val |-> NoValue]

\* Ok(Token {tok, place, lexeme})
Token(tok, place, lexeme) ==
    [ok |-> TRUE, tok |-> tok, place |-> place, lexeme |-> lexeme]

UnexpectedCharacter(ch) == [kind |-> "UnexpectedCharacter", ch |-> ch]
UnterminatedString == [kind |-> "UnterminatedString", ch |-> None]

\* Err(Error {place, kind})
Error(place, kind) == [ok |-> FALSE, place |-> place, kind |-> kind]

(***************************************************************************)
(* str::parse::<f64>() on the lexemes number() builds: digits, or digits   *)
(* '.' digits.  The value is mant * 10^exp10 with no trailing zero in mant *)
(* while exp10 < 0, so that two lexemes of the same value parse equal.     *)
(***************************************************************************)
DigitValue(c) ==
    CASE c = "0" -> 0 [] c = "1" -> 1 [] c = "2" -> 2 [] c = "3" -> 3 [] c = "4" -> 4
      [] c = "5" -> 5 [] c = "6" -> 6 [] c = "7" -> 7 [] c = "8" -> 8 [] c = "9" -> 9

RECURSIVE DecimalValue(_)
DecimalValue(ds) ==
    IF ds = <<>> THEN 0
    ELSE 10 * DecimalValue(SubSeq(ds, 1, Len(ds) - 1)) + DigitValue(ds[Len(ds)])

RECURSIVE Normalize(_, _)
Normalize(mant, exp10) ==
    IF exp10 < 0 /\ mant % 10 = 0
    THEN Normalize(mant \div 10, exp10 + 1)
    ELSE [mant |-> mant, exp10 |-> exp10]

ParseF64(text) ==
    LET dots == {i \in 1..Len(text) : text[i] = "."}
    IN  IF dots = {}
        THEN Normalize(DecimalValue(text), 0)
        ELSE LET d == CHOOSE i \in dots : TRUE
                 whole == SubSeq(text, 1, d - 1)
                 frac == SubSeq(text, d + 1, Len(text))
             IN  Normalize(DecimalValue(whole \o frac), 0 - Len(frac))

(***************************************************************************)
(* lex.rs: the scans of one lexical unit                                   *)
(***************************************************************************)
\* A slip in number(): a letter right behind the number is taken as its suffix.
number_TakesSuffix(s, dbg) ==
    LET s1 == take_while(s, Digits)
        p == peek2(s1)
        s2 == IF p.ret # None2 /\ p.ret[1] = "." /\ p.ret[2] \in Digits
              THEN take_while(IF dbg THEN take_exactly(p.scan, ".").scan ELSE p.scan,
                              Digits)
              ELSE p.scan
    IN  [scan |-> take_if(s2, AsciiAlphabetic).scan,
         tok |-> Tok_Number(ParseF64(current_token(s2)))]

\* A slip in number(): only one digit more is taken, not the whole run.
number_OneMoreDigit(s, dbg) ==
    LET s1 == take_if(s, Digits).scan
    IN  [scan |-> s1, tok |-> Tok_Number(ParseF64(current_token(s1)))]

\* A slip in number(): a '.' after the digits is taken whatever follows it.
number_TakesAnyDot(s, dbg) ==
    LET s1 == take_while(s, Digits)
        d == take_exactly(s1, ".")
        s2 == IF d.ret THEN take_while(d.scan, Digits) ELSE d.scan
    IN  [scan |-> s2, tok |-> Tok_Number(ParseF64(current_token(s2)))]

\* number(): dbg says whether debug_assert! evaluates its argument.
number(s, dbg) ==
    LET s1 == take_while(s, Digits)
        p == peek2(s1)
        s2 == IF p.ret # None2 /\ p.ret[1] = "." /\ p.ret[2] \in Digits
              THEN take_while(IF dbg THEN take_exactly(p.scan, ".").scan ELSE p.scan,
                              Digits)
              ELSE p.scan
    IN  [scan |-> s2, tok |-> Tok_Number(ParseF64(current_token(s2)))]

\* A slip in the loop of string(): a backslash takes the next character with it.
RECURSIVE string_loop_Escapes(_, _)
string_loop_Escapes(s, str) ==
    LET t == take_if(s, Char \ {"\""})
    IN  IF t.ret = None THEN [scan |-> t.scan, str |-> str]
        ELSE IF t.ret = "\\"
             THEN LET u == take(t.scan)
                  IN  IF u.ret = None THEN [scan |-> u.scan, str |-> Append(str, t.ret)]
                      ELSE string_loop_Escapes(u.scan, Append(str, u.ret))
        ELSE string_loop_Escapes(t.scan, Append(str, t.ret))

\* A slip in the loop of string(): a string ends with its line.
RECURSIVE string_loop_StopsAtNewline(_, _)
string_loop_StopsAtNewline(s, str) ==
    LET t == take_if(s, Char \ {"\"", "\n"})
    IN  IF t.ret # None
        THEN string_loop_StopsAtNewline(t.scan, Append(str, t.ret))
        ELSE [scan |-> t.scan, str |-> str]

\* The while-let loop of string(): take characters other than '"' into str.
RECURSIVE string_loop(_, _)
string_loop(s, str) ==
    LET t == take_if(s, Char \ {"\""})
    IN  IF t.ret # None
        THEN string_loop(t.scan, Append(str, t.ret))
        ELSE [scan |-> t.scan, str |-> str]

\* A slip in string(): the error is placed where the input ended.
string_ErrorAtEnd(s) ==
    LET l == string_loop(s, <<>>)
        q == take_exactly(l.scan, "\"")
    IN  IF ~q.ret
        THEN [scan |-> q.scan,
              res |-> Error(Place_new(q.scan.line_number, q.scan.column), UnterminatedString)]
        ELSE [scan |-> q.scan,
              res |-> Token(Tok_String(l.str), token_start(q.scan), current_token(q.scan))]

string(s) ==
    LET l == string_loop(s, <<>>)
        q == take_exactly(l.scan, "\"")
    IN  IF ~q.ret
        THEN [scan |-> q.scan, res |-> Error(token_start(q.scan), UnterminatedString)]
        ELSE [scan |-> q.scan,
              res |-> Token(Tok_String(l.str), token_start(q.scan), current_token(q.scan))]

\* The keyword table of word().
Keyword(text) ==
    CASE text = <<"a", "n", "d">> -> Tok("And")
      [] text = <<"c", "l", "a", "s", "s">> -> Tok("Class")
      [] text = <<"e", "l", "s", "e">> -> Tok("Else")
      [] text = <<"f", "a", "l", "s", "e">> -> Tok("False")
      [] text = <<"f", "o", "r">> -> Tok("For")
      [] text = <<"f", "u", "n">> -> Tok("Fun")
      [] text = <<"i", "f">> -> Tok("If")
      [] text = <<"n", "i", "l">> -> Tok("Nil")
      [] text = <<"o", "r">> -> Tok("Or")
      [] text = <<"p", "r", "i", "n", "t">> -> Tok("Print")
      [] text = <<"r", "e", "t", "u", "r", "n">> -> Tok("Return")
      [] text = <<"s", "u", "p", "e", "r">> -> Tok("Super")
      [] text = <<"t", "h", "i", "s">> -> Tok("This")
      [] text = <<"t", "r", "u", "e">> -> Tok("True")
      [] text = <<"v", "a", "r">> -> Tok("Var")
      [] text = <<"w", "h", "i", "l", "e">> -> Tok("While")
      [] OTHER -> Tok_Identifier(text)

\* A slip in word(): the text is compared without regard to case.
word_IgnoresCase(s) ==
    LET s1 == take_while(s, AsciiAlphanumeric \cup {"_"})
        lower == [k \in 1..Len(current_token(s1)) |->
                     CASE current_token(s1)[k] = "T" -> "t"
                       [] current_token(s1)[k] = "O" -> "o"
                       [] current_token(s1)[k] = "R" -> "r"
                       [] OTHER -> current_token(s1)[k]]
    IN  [scan |-> s1, tok |-> Keyword(lower)]

word(s) ==
    LET s1 == take_while(s, AsciiAlphanumeric \cup {"_"})
    IN  [scan |-> s1, tok |-> Keyword(current_token(s1))]

(***************************************************************************)
(* lex.rs: lex()                                                           *)
(***************************************************************************)
\* The push of Ok(Token {tok, lexeme, place}) after the match.
Emit(s, tok) ==
    [scan |-> s, out |-> <<Token(tok, token_start(s), current_token(s))>>]

\* A slip in the skipping arms: one character more is skipped.
Skip_TakesNext(s) == [scan |-> take(s).scan, out |-> <<>>]

\* An arm that ends in `continue` with nothing pushed.
Skip(s) == [scan |-> s, out |-> <<>>]

\* A slip in the two-character arms: the next character is not looked at.
OneOrTwo_NeverTwo(s, one, two) == Emit(s, Tok(one))

\* The arms `c if scan.take_exactly('=') => two, c => one`.
OneOrTwo(s, one, two) ==
    LET e == take_exactly(s, "=")
    IN  Emit(e.scan, IF e.ret THEN Tok(two) ELSE Tok(one))

\* A slip in the arm `other`: the error is placed where the scan stands.
Unexpected_AtScanPosition(s, other) ==
    [scan |-> s,
     out |-> <<Error(Place_new(s.line_number, s.column), UnexpectedCharacter(other))>>]

\* The arm `other`.
Unexpected(s, other) ==
    [scan |-> s, out |-> <<Error(token_start(s), UnexpectedCharacter(other))>>]

\* A slip in the guard of the shebang arm: the column is not looked at.
ShebangColumn_AnyColumn(s) == next_column(s) >= 2

\* A slip in the guard of the shebang arm: only the first line counts.
ShebangColumn_FirstLineOnly(s) == next_column(s) = 2 /\ s.line_number = 1

\* The guard of the shebang arm: the column of the next character is 2.
ShebangColumn(s) == next_column(s) = 2

\* The match on the character ch that take() returned, s being the scanner after it.
Match(s, ch, dbg) ==
    CASE ch \in Whitespace -> Skip(s)
      [] ch = "+" -> Emit(s, Tok("Plus"))
      [] ch = "*" -> Emit(s, Tok("Star"))
      [] ch = "-" -> Emit(s, Tok("Minus"))
      [] ch = "." -> Emit(s, Tok("Dot"))
      [] ch = "/" ->
            LET e == take_exactly(s, "/")
            IN  IF e.ret THEN Skip(take_until(e.scan, {"\n"}))
                ELSE Emit(e.scan, Tok("Slash"))
      [] ch = ";" -> Emit(s, Tok("Semicolon"))
      [] ch = "," -> Emit(s, Tok("Comma"))
      [] ch = "!" -> OneOrTwo(s, "Bang", "BangEqual")
      [] ch = "=" -> OneOrTwo(s, "Equal", "EqualEqual")
      [] ch \in Digits -> LET n == number(s, dbg) IN Emit(n.scan, n.tok)
      [] ch = "{" -> Emit(s, Tok("LeftBrace"))
      [] ch = "}" -> Emit(s, Tok("RightBrace"))
      [] ch = "(" -> Emit(s, Tok("LeftParen"))
      [] ch = ")" -> Emit(s, Tok("RightParen"))
      [] ch = "<" -> OneOrTwo(s, "Less", "LessEqual")
      [] ch = ">" -> OneOrTwo(s, "Greater", "GreaterEqual")
      [] ch = "\"" -> LET r == string(s) IN [scan |-> r.scan, out |-> <<r.res>>]
      [] ch \in AsciiAlphabetic \cup {"_"} -> LET w == word(s) IN Emit(w.scan, w.tok)
      [] ch = "#" ->
            IF ShebangColumn(s)
            THEN LET e == take_exactly(s, "!")
                 IN  IF e.ret THEN Skip(take_until(e.scan, {"\n"}))
                     ELSE Unexpected(e.scan, ch)
            ELSE Unexpected(s, ch)
      [] OTHER -> Unexpected(s, ch)

\* A slip in the loop body: the first character is looked at, not taken.
LoopBody_PeeksFirst(s, dbg) ==
    LET t == peek(start_token(s))
    IN  Match(t.scan, t.ret, dbg)

\* The body of the while loop: start_token(), take(), the match and the push.
LoopBody(s, dbg) ==
    LET t == take(start_token(s))
    IN  Match(t.scan, t.ret, dbg)

(***************************************************************************)
(* scanner.rs: the lazy lexer, with its own Scan over the characters.      *)
(***************************************************************************)
scanner_Scan_new(inner) ==
    [inner |-> inner,
     buf |-> <<>>,
     current_token |-> <<>>,
     line_number |-> 1,
     token_start_line |-> 1]

scanner_start_token(s) ==
    [s EXCEPT !.current_token = <<>>,
              !.token_start_line = s.line_number]

\* The line and accumulator update of take() once the character c is drawn.
scanner_TakeChar(s, c) ==
    [s EXCEPT !.line_number = IF c = "\n" THEN s.line_number + 1 ELSE s.line_number,
              !.current_token = Append(s.current_token, c)]

scanner_take(s) ==
    IF s.buf = <<>>
    THEN IF s.inner = <<>>
         THEN [scan |-> s, ret |-> None]
         ELSE [scan |-> scanner_TakeChar([s EXCEPT !.inner = Tail(s.inner)], Head(s.inner)),
               ret |-> Head(s.inner)]
    ELSE [scan |-> scanner_TakeChar([s EXCEPT !.buf = Tail(s.buf)], Head(s.buf)),
          ret |-> Head(s.buf)]

RECURSIVE scanner_peek_nth(_, _)
scanner_peek_nth(s, n) ==
    IF Len(s.buf) <= n
    THEN IF s.inner # <<>>
         THEN scanner_peek_nth([s EXCEPT !.buf = Append(s.buf, Head(s.inner)),
                                         !.inner = Tail(s.inner)], n)
         ELSE [scan |-> s, ret |-> None]
    ELSE [scan |-> s, ret |-> s.buf[n + 1]]

scanner_peek(s) == scanner_peek_nth(s, 0)

scanner_peek2(s) ==
    LET p == scanner_peek_nth(s, 1)
    IN  IF p.ret # None
        THEN [scan |-> p.scan, ret |-> <<p.scan.buf[1], p.scan.buf[2]>>]
        ELSE [scan |-> p.scan, ret |-> None2]

scanner_take_if(s, f) ==
    LET p == scanner_peek(s)
    IN  IF p.ret = None THEN [scan |-> p.scan, ret |-> None]
        ELSE IF p.ret \in f THEN scanner_take(p.scan)
        ELSE [scan |-> p.scan, ret |-> None]

RECURSIVE scanner_take_while(_, _)
scanner_take_while(s, f) ==
    LET t == scanner_take_if(s, f)
    IN  IF t.ret # None THEN scanner_take_while(t.scan, f) ELSE t.scan

RECURSIVE scanner_take_until(_, _)
scanner_take_until(s, f) ==
    LET t == scanner_take(s)
    IN  IF t.ret = None THEN t.scan
        ELSE IF t.ret \in f THEN t.scan
        ELSE scanner_take_until(t.scan, f)

scanner_take_exactly(s, c) == scanner_take_if(s, {c})

scanner_is_empty(s) ==
    LET p == scanner_peek(s)
    IN  [scan |-> p.scan, ret |-> p.ret = None]

\* scanner.rs Token {tok, line, lexeme}
scanner_Token(tok, line, lexeme) == [tok |-> tok, line |-> line, lexeme |-> lexeme]

\* What Lexer::next() comes to: Some(token), None, or a panic.
Some(token) == [is |-> "Some", token |-> token]
NoItem == [is |-> "None"]
Panic == [is |-> "panic"]

scanner_make_token(chars, tok) ==
    [chars |-> chars,
     item |-> Some(scanner_Token(tok, chars.token_start_line, chars.current_token))]

\* Lexer::number(): the '.' is taken by take_exactly(..).unwrap() in every build.
scanner_number(s) ==
    LET s1 == scanner_take_while(s, Digits)
        p == scanner_peek2(s1)
        s2 == IF p.ret # None2 /\ p.ret[1] = "." /\ p.ret[2] \in Digits
              THEN scanner_take_while(scanner_take_exactly(p.scan, ".").scan, Digits)
              ELSE p.scan
    IN  [scan |-> s2, tok |-> Tok_Number(ParseF64(s2.current_token)), panic |-> FALSE]

\* Lexer::string(): everything through the next '"' or the end of the input;
\* the value is current_token[1..(l - 1)], a slice that panics when l - 1 < 1.
scanner_string(s) ==
    LET s1 == scanner_take_until(s, {"\""})
        l == Len(s1.current_token)
    IN  IF l - 1 < 1
        THEN [scan |-> s1, tok |-> Tok("Dot"), panic |-> TRUE]
        ELSE [scan |-> s1, tok |-> Tok_String(SubSeq(s1.current_token, 2, l - 1)),
              panic |-> FALSE]

\* Lexer::next(): the loop runs until a token is made, the input ends or an
\* unhandled character panics.
RECURSIVE scanner_next(_)
scanner_next(chars) ==
    LET e == scanner_is_empty(chars)
        t == scanner_take(scanner_start_token(e.scan))
        s == t.scan
        ch == t.ret
    IN  IF e.ret THEN [chars |-> e.scan, item |-> NoItem]
        ELSE IF ch \in {"\n", " ", "\t", "\r"} THEN scanner_next(s)
        ELSE IF ch = "+" THEN scanner_make_token(s, Tok("Plus"))
        ELSE IF ch = "*" THEN scanner_make_token(s, Tok("Star"))
        ELSE IF ch = "-" THEN scanner_make_token(s, Tok("Minus"))
        ELSE IF ch = "." THEN scanner_make_token(s, Tok("Dot"))
        ELSE IF ch = "/" /\ scanner_peek(s).ret = "/"
             THEN scanner_next(scanner_take_until(scanner_peek(s).scan, {"\n"}))
        ELSE IF ch = "/" THEN scanner_make_token(scanner_peek(s).scan, Tok("Dot"))
        ELSE IF ch \in Digits
             THEN LET n == scanner_number(s) IN scanner_make_token(n.scan, n.tok)
        ELSE IF ch = "\""
             THEN LET r == scanner_string(s)
                  IN  IF r.panic THEN [chars |-> r.scan, item |-> Panic]
                      ELSE scanner_make_token(r.scan, r.tok)
        ELSE [chars |-> s, item |-> Panic]

\* scanner.rs lex(): the Lexer over the characters of source.
scanner_lex(src) == [chars |-> scanner_Scan_new(src)]

\* One pull of the iterator: Lexer::next() from its call to its return.
LexerNext ==
    /\ lpc = "pull"
    /\ LET n == scanner_next(lexer.chars)
       IN  /\ lexer' = [chars |-> n.chars]
           /\ pulled' = IF n.item.is = "Some" THEN Append(pulled, n.item.token) ELSE pulled
           /\ lpc' = CASE n.item.is = "Some" -> "pull"
                       [] n.item.is = "None" -> "end"
                       [] n.item.is = "panic" -> "panic"
    /\ UNCHANGED <<advanced, source, debug_assertions, scan, result, pc, call, mark, taken, parsed>>

\* parse.rs: parse_expr() was not called.
NotParsed == [is |-> "none"]

\* The history variables before any method was called on the scanner.
NoCall == [name |-> "new"]

\* lex() before its first loop test, on the input src.
LexInit(src) ==
    /\ source = src
    /\ scan = Scan_new(src)
    /\ result = <<>>
    /\ pc = "loop"
    /\ call = NoCall
    /\ mark = 0
    /\ taken = <<>>
    /\ lexer = scanner_lex(src)
    /\ pulled = <<>>
    /\ lpc = "pull"
    /\ parsed = NotParsed
    /\ advanced = file_start

\* One iteration of `while !scan.is_empty()`.
LexIterate ==
    /\ pc = "loop"
    /\ LET e == is_empty(scan)
       IN  /\ ~e.ret
           /\ LET b == LoopBody(e.scan, debug_assertions)
              IN  /\ scan' = b.scan
                  /\ result' = result \o b.out
    /\ UNCHANGED <<advanced, lexer, pulled, lpc, parsed, taken, source, debug_assertions, pc, call, mark>>

\* The loop test fails and lex() returns result.
LexReturn ==
    /\ pc = "loop"
    /\ LET e == is_empty(scan)
       IN  /\ e.ret
           /\ scan' = e.scan
    /\ pc' = "done"
    /\ UNCHANGED <<advanced, lexer, pulled, lpc, parsed, taken, source, debug_assertions, result, call, mark>>

Next == LexIterate \/ LexReturn

Init ==
    /\ debug_assertions \in BOOLEAN
    /\ \E src \in TextsUpTo(Alphabet, MaxLen) : LexInit(src)

Spec == Init /\ [][Next]_vars

\* The loop test of lex() passes.
IterateEnabled == pc = "loop" /\ ~is_empty(scan).ret

\* lex() is sequential code that nothing suspends: while the loop test passes
\* iterations are made, and when it fails lex() returns.  The first conjunct is
\* weak fairness of LexIterate with its enabling condition written out.
Fairness ==
    /\ []<>(~IterateEnabled) \/ []<><<LexIterate>>_vars
    /\ WF_vars(LexReturn)

SpecLive == Init /\ [][Next]_vars /\ Fairness

(***************************************************************************)
(* Inputs with unrecognised characters among recognised ones.              *)
(***************************************************************************)
AlphabetErr == {"#", "@", "!", "o", "1", "\n", "\""}

InitErr ==
    /\ debug_assertions \in BOOLEAN
    /\ \E src \in TextsUpTo(AlphabetErr, MaxLenErr) : LexInit(src)

SpecErr == InitErr /\ [][Next]_vars

(***************************************************************************)
(* Inputs that mix numbers, strings, words, operators, comments and        *)
(* whitespace.                                                             *)
(***************************************************************************)
AlphabetTok == {"1", ".", "\"", "\n", "o", "=", "\t", "/"}

InitTok ==
    /\ debug_assertions \in BOOLEAN
    /\ \E src \in TextsUpTo(AlphabetTok, MaxLenTok) : LexInit(src)

SpecTok == InitTok /\ [][Next]_vars

(***************************************************************************)
(* Inputs of digits, dots, a letter and a space.                           *)
(***************************************************************************)
AlphabetNum == {"0", "1", ".", "o", " "}

InitNum ==
    /\ debug_assertions \in BOOLEAN
    /\ \E src \in TextsUpTo(AlphabetNum, MaxLenNum) : LexInit(src)

SpecNum == InitNum /\ [][Next]_vars

(***************************************************************************)
(* Inputs of quotes, backslashes, newlines, a letter and a digit.          *)
(***************************************************************************)
AlphabetStr == {"\"", "\\", "\n", "o", "1"}

InitStr ==
    /\ debug_assertions \in BOOLEAN
    /\ \E src \in TextsUpTo(AlphabetStr, MaxLenStr) : LexInit(src)

SpecStr == InitStr /\ [][Next]_vars

(***************************************************************************)
(* Inputs of '#', '!', newlines and a digit.                               *)
(***************************************************************************)
AlphabetHash == {"#", "!", "\n", "1"}

InitHash ==
    /\ debug_assertions \in BOOLEAN
    /\ \E src \in TextsUpTo(AlphabetHash, MaxLenHash) : LexInit(src)

SpecHash == InitHash /\ [][Next]_vars

(***************************************************************************)
(* Inputs of tabs, newlines and a letter.                                  *)
(***************************************************************************)
AlphabetTab == {"\t", "\n", "o"}

InitTab ==
    /\ debug_assertions \in BOOLEAN
    /\ \E src \in TextsUpTo(AlphabetTab, MaxLenTab) : LexInit(src)

SpecTab == InitTab /\ [][Next]_vars

(***************************************************************************)
(* Inputs of slashes, newlines, quotes, spaces and a letter.               *)
(***************************************************************************)
AlphabetCom == {"/", "\n", "o", "\"", " "}

InitCom ==
    /\ debug_assertions \in BOOLEAN
    /\ \E src \in TextsUpTo(AlphabetCom, MaxLenCom) : LexInit(src)

SpecCom == InitCom /\ [][Next]_vars

(***************************************************************************)
(* Inputs put together from pieces: the keyword spellings, two spellings   *)
(* that differ from a keyword in case, and single characters.              *)
(***************************************************************************)
WordPieces ==
    {<<"a", "n", "d">>, <<"c", "l", "a", "s", "s">>, <<"e", "l", "s", "e">>,
     <<"f", "a", "l", "s", "e">>, <<"f", "o", "r">>, <<"f", "u", "n">>, <<"i", "f">>,
     <<"n", "i", "l">>, <<"o", "r">>, <<"p", "r", "i", "n", "t">>,
     <<"r", "e", "t", "u", "r", "n">>, <<"s", "u", "p", "e", "r">>,
     <<"t", "h", "i", "s">>, <<"t", "r", "u", "e">>, <<"v", "a", "r">>,
     <<"w", "h", "i", "l", "e">>,
     <<"T", "r", "u", "e">>, <<"O", "R">>,
     <<"_">>, <<"1">>, <<"x">>, <<" ">>}

RECURSIVE Concat(_)
Concat(texts) ==
    IF texts = <<>> THEN <<>> ELSE Head(texts) \o Concat(Tail(texts))

InitWord ==
    /\ debug_assertions \in BOOLEAN
    /\ \E ps \in TextsUpTo(WordPieces, MaxPieces) : LexInit(Concat(ps))

SpecWord == InitWord /\ [][Next]_vars

(***************************************************************************)
(* Inputs of the operator characters '!', '=', '<', '>' and a digit.       *)
(***************************************************************************)
AlphabetOp == {"!", "=", "<", ">", "1"}

InitOp ==
    /\ debug_assertions \in BOOLEAN
    /\ \E src \in TextsUpTo(AlphabetOp, MaxLenOp) : LexInit(src)

SpecOp == InitOp /\ [][Next]_vars

(***************************************************************************)
(* scan.rs under any client: the public methods of Scan called in any      *)
(* order on a scanner over a short text.                                   *)
(***************************************************************************)
AlphabetScan == {"a", "b", "\n"}

\* The predicates handed to take_if, take_while and take_until.
Tests == {{"a"}, {"\n"}, {"a", "b"}}

\* The record of a call: method, argument and return value.
Called(name, arg, ret) == [name |-> name, arg |-> arg, ret |-> ret]

\* The history of take() after it returned ret.
Returned(history, ret) == IF ret = None THEN history ELSE Append(history, ret)

\* What the take()s inside a helper returned: take() returns the character it
\* has just pushed on current_token, so it is what current_token grew by from
\* before to after.
Pushed(before, after) ==
    SubSeq(after.current_token, Len(before.current_token) + 1, Len(after.current_token))

CallStartToken ==
    /\ scan' = start_token(scan)
    /\ mark' = Len(source) - Len(scan.lookahead) - Len(scan.input)
    /\ call' = Called("start_token", None, None)
    /\ UNCHANGED <<advanced, lexer, pulled, lpc, parsed, taken, source, debug_assertions, result, pc>>

CallTake ==
    /\ LET t == take(scan)
       IN  /\ scan' = t.scan
           /\ call' = Called("take", None, t.ret)
           /\ taken' = Returned(taken, t.ret)
    /\ UNCHANGED <<advanced, lexer, pulled, lpc, parsed, source, debug_assertions, result, pc, mark>>

CallTakeIf ==
    /\ \E f \in Tests :
          LET t == take_if(scan, f)
          IN  /\ scan' = t.scan
              /\ call' = Called("take_if", f, t.ret)
              /\ taken' = Returned(taken, t.ret)
    /\ UNCHANGED <<advanced, lexer, pulled, lpc, parsed, source, debug_assertions, result, pc, mark>>

CallTakeWhile ==
    /\ \E f \in Tests :
          /\ scan' = take_while(scan, f)
          /\ call' = Called("take_while", f, None)
          /\ taken' = taken \o Pushed(scan, take_while(scan, f))
    /\ UNCHANGED <<advanced, lexer, pulled, lpc, parsed, source, debug_assertions, result, pc, mark>>

CallTakeUntil ==
    /\ \E f \in Tests :
          /\ scan' = take_until(scan, f)
          /\ call' = Called("take_until", f, None)
          /\ taken' = taken \o Pushed(scan, take_until(scan, f))
    /\ UNCHANGED <<advanced, lexer, pulled, lpc, parsed, source, debug_assertions, result, pc, mark>>

CallTakeExactly ==
    /\ \E c \in AlphabetScan :
          LET t == take_exactly(scan, c)
          IN  /\ scan' = t.scan
              /\ call' = Called("take_exactly", c, t.ret)
              /\ taken' = taken \o Pushed(scan, t.scan)
    /\ UNCHANGED <<advanced, lexer, pulled, lpc, parsed, source, debug_assertions, result, pc, mark>>

CallPeek ==
    /\ LET p == peek(scan)
       IN  /\ scan' = p.scan
           /\ call' = Called("peek", None, p.ret)
    /\ UNCHANGED <<advanced, lexer, pulled, lpc, parsed, taken, source, debug_assertions, result, pc, mark>>

CallPeek2 ==
    /\ LET p == peek2(scan)
       IN  /\ scan' = p.scan
           /\ call' = Called("peek2", None, p.ret)
    /\ UNCHANGED <<advanced, lexer, pulled, lpc, parsed, taken, source, debug_assertions, result, pc, mark>>

CallIsEmpty ==
    /\ LET e == is_empty(scan)
       IN  /\ scan' = e.scan
           /\ call' = Called("is_empty", None, e.ret)
    /\ UNCHANGED <<advanced, lexer, pulled, lpc, parsed, taken, source, debug_assertions, result, pc, mark>>

NextScan ==
    \/ CallStartToken
    \/ CallTake
    \/ CallTakeIf
    \/ CallTakeWhile
    \/ CallTakeUntil
    \/ CallTakeExactly
    \/ CallPeek
    \/ CallPeek2
    \/ CallIsEmpty

\* A scanner fresh from Scan::new; lex() is not running, so its variables stay put.
InitScan ==
    /\ debug_assertions = TRUE
    /\ \E src \in TextsUpTo(AlphabetScan, MaxLenScan) :
          /\ source = src
          /\ scan = Scan_new(src)
    /\ result = <<>>
    /\ pc = "scan"
    /\ call = NoCall
    /\ mark = 0
    /\ taken = <<>>
    /\ lexer = scanner_lex(<<>>)
    /\ pulled = <<>>
    /\ lpc = "pull"
    /\ parsed = NotParsed
    /\ advanced = file_start

SpecScan == InitScan /\ [][NextScan]_vars

(***************************************************************************)
(* The eager lexer of lex.rs and the lazy lexer of scanner.rs on one input. *)
(***************************************************************************)
AlphabetBoth == {"1", ".", "+", "/", "\"", "\n", " "}

InitBoth ==
    /\ debug_assertions \in BOOLEAN
    /\ \E src \in TextsUpTo(AlphabetBoth, MaxLenBoth) : LexInit(src)

NextBoth == LexIterate \/ LexReturn \/ LexerNext

SpecBoth == InitBoth /\ [][NextBoth]_vars

(***************************************************************************)
(* value.rs and parse.rs: the literal parser, called by Interpreter::eval  *)
(* on the tokens of lex().                                                 *)
(***************************************************************************)
Value_Number(n) == [is |-> "Number", n |-> n]
Value_String(s) == [is |-> "String", s |-> s]
Value_Bool(b) == [is |-> "Bool", b |-> b]
Value_Nil == [is |-> "Nil"]

\* Option<Value>::None and the other empty Options of parse.rs
NoValueOption == [is |-> "None"]

\* Value::from_literal_token
from_literal_token(token) ==
    CASE token.tok.kind = "Number" -> Value_Number(token.tok.val)
      [] token.tok.kind = "String" -> Value_String(token.tok.text)
      [] token.tok.kind = "True" -> Value_Bool(TRUE)
      [] token.tok.kind = "False" -> Value_Bool(FALSE)
      [] token.tok.kind = "Nil" -> Value_Nil
      [] OTHER -> NoValueOption

Expr_Literal(value) == [is |-> "Literal", value |-> value]

\* Ok((expr, rest)) and Err(anyhow!(..)) of the parser's Result
ParseOk(expr, rest) == [is |-> "Ok", expr |-> expr, rest |-> rest]
ParseErr(msg) == [is |-> "Err", msg |-> msg]

\* parse.rs take_if with the match function of parse_literal:
\* tokens.first().and_then(match_fn).map(|t| (t, &tokens[1..]))
parse_take_if(tokens) ==
    IF tokens = <<>> THEN NoValueOption
    ELSE IF from_literal_token(Head(tokens)) = NoValueOption THEN NoValueOption
    ELSE [is |-> "Some",
          t |-> Expr_Literal(from_literal_token(Head(tokens))),
          rest |-> Tail(tokens)]

parse_literal(tokens) ==
    LET o == parse_take_if(tokens)
    IN  IF o.is = "Some" THEN ParseOk(o.t, o.rest) ELSE ParseErr("not a literal")

\* A slip in parse_expr(): what follows the literal is handed back, not refused.
parse_expr_LeavesRest(tokens) == parse_literal(tokens)

parse_expr(tokens) ==
    LET r == parse_literal(tokens)
    IN  IF r.is = "Err" THEN r
        ELSE IF r.rest # <<>> THEN ParseErr("unexpected tokens after literal")
        ELSE ParseOk(r.expr, r.rest)

\* Interpreter::eval from the return of lex() to the return of parse_expr():
\* every entry is unwrapped, which panics on an error entry.
ParseExpr ==
    /\ pc = "done"
    /\ parsed = NotParsed
    /\ parsed' = IF \E i \in 1..Len(result) : ~result[i].ok
                 THEN [is |-> "panic"]
                 ELSE parse_expr(result)
    /\ UNCHANGED <<advanced, lexer, pulled, lpc, taken, source, debug_assertions, scan, result,
                   pc, call, mark>>

\* Inputs put together from literals, other words and characters.
ParsePieces ==
    {<<"1">>, <<"1", ".", "5">>, <<"\"", "o", "\"">>, <<"n", "i", "l">>,
     <<"t", "r", "u", "e">>, <<"f", "a", "l", "s", "e">>, <<"o">>, <<"+">>,
     <<" ">>, <<"\n">>, <<"@">>}

InitParse ==
    /\ debug_assertions \in BOOLEAN
    /\ \E ps \in TextsUpTo(ParsePieces, MaxPiecesParse) : LexInit(Concat(ps))

NextParse == LexIterate \/ LexReturn \/ ParseExpr

SpecParse == InitParse /\ [][NextParse]_vars

(***************************************************************************)
(* Inputs that mix skipped text (blanks, comments, shebang lines) with      *)
(* tokens, strings and '#' in places where it is unexpected.               *)
(***************************************************************************)
AlphabetPart == {" ", "/", "\n", "#", "!", "\"", "1"}

InitPart ==
    /\ debug_assertions \in BOOLEAN
    /\ \E src \in TextsUpTo(AlphabetPart, MaxLenPart) : LexInit(src)

SpecPart == InitPart /\ [][Next]_vars

(***************************************************************************)
(* place.rs beside scan.rs: a Place that starts at the start of the file   *)
(* is advanced by every character taken from a scanner.                    *)
(***************************************************************************)
TakeAndAdvance ==
    /\ pc = "advance"
    /\ LET t == take(scan)
       IN  /\ t.ret # None
           /\ scan' = t.scan
           /\ advanced' = Place_advance(advanced, t.ret)
    /\ UNCHANGED <<lexer, pulled, lpc, parsed, taken, source, debug_assertions, result,
                   pc, call, mark>>

InitAdvance ==
    /\ debug_assertions = TRUE
    /\ \E src \in TextsUpTo(AlphabetTab, MaxLenTab) :
          /\ source = src
          /\ scan = Scan_new(src)
          /\ lexer = scanner_lex(src)
    /\ advanced = file_start
    /\ result = <<>>
    /\ pc = "advance"
    /\ call = NoCall
    /\ mark = 0
    /\ taken = <<>>
    /\ pulled = <<>>
    /\ lpc = "pull"
    /\ parsed = NotParsed

SpecAdvance == InitAdvance /\ [][TakeAndAdvance]_vars

(***************************************************************************)
(* Properties.                                                             *)
(***************************************************************************)
\* The characters not yet consumed, and how many were consumed.
Rest == scan.lookahead \o scan.input
Consumed == Len(source) - Len(Rest)

Last(seq) == seq[Len(seq)]

\* The position after the character c at position p, by the rule of the data model.
RefAdvance(p, c) ==
    IF c = "\n" THEN [line |-> p.line + 1, column |-> 1]
    ELSE IF c = "\t"
         THEN [line |-> p.line,
               column |-> CHOOSE k \in (p.column + 1)..(p.column + 8) :
                              /\ k % 8 = 1
                              /\ \A j \in (p.column + 1)..(k - 1) : j % 8 # 1]
    ELSE [line |-> p.line, column |-> p.column + 1]

\* The position of the i-th character of text (of the end of text for i = Len(text) + 1).
RECURSIVE RefPlace(_, _)
RefPlace(text, i) ==
    IF i = 1 THEN [line |-> 1, column |-> 1]
    ELSE RefAdvance(RefPlace(text, i - 1), text[i - 1])

\* The characters that start a unit some rule recognises, '#' apart.
RuleStart ==
    Whitespace \cup Digits \cup AsciiAlphabetic
        \cup {"+", "*", "-", ".", "/", ";", ",", "!", "=", "{", "}", "(", ")", "<", ">",
              "\"", "_"}

\* '#' at index i of text starts a shebang line: column 1 and a '!' next.
ShebangAt(text, i) ==
    /\ text[i] = "#"
    /\ RefPlace(text, i).column = 1
    /\ i < Len(text)
    /\ text[i + 1] = "!"

\* No rule recognises the character at index i of text.
NoRuleAt(text, i) == text[i] \notin RuleStart /\ ~ShebangAt(text, i)

\* C1: when lex meets a character that no rule recognises it appends one
\* UnexpectedCharacter error placed at that character, consumes that one
\* character only and goes on with the loop on the rest of the input; lex
\* returns only with the input used up.
C1_UnexpectedCharacterIsLocal ==
    [][/\ (pc = "loop" /\ Rest # <<>> /\ NoRuleAt(source, Consumed + 1))
            => /\ result' = Append(result,
                                   Error(RefPlace(source, Consumed + 1),
                                         UnexpectedCharacter(source[Consumed + 1])))
               /\ Rest' = Tail(Rest)
               /\ pc' = "loop"
       /\ pc' = "done" => Rest' = <<>>]_vars

\* An error for an unexpected character away from the start, with a token after it.
C1_Witness ==
    \E i \in 1..(Len(result) - 1) :
        /\ ~result[i].ok
        /\ result[i].kind.kind = "UnexpectedCharacter"
        /\ result[i].place # file_start
        /\ result[i + 1].ok

\* The position at which the scanner stands.
ScanPlace == [line |-> scan.line_number, column |-> scan.column]

\* This step pushes a token.
PushesToken == Len(result') = Len(result) + 1 /\ Last(result').ok

\* C2: the lexeme of every token lex pushes is the text consumed in the loop
\* iteration that pushes it, from its start_token() mark on (both quotes
\* included for a string), and its place is the position the scanner had at
\* that mark, not the one it has when the token is pushed.
C2_LexemeAndPlaceFromStartMark ==
    [][PushesToken
         => LET tk == Last(result')
            IN  /\ tk.lexeme = SubSeq(source, Consumed + 1, Consumed')
                /\ tk.lexeme # <<>>
                /\ tk.place = ScanPlace
                /\ tk.place # ScanPlace'
                /\ tk.tok.kind = "String"
                     => tk.lexeme = <<"\"">> \o tk.tok.text \o <<"\"">>]_vars

\* A string token away from the start of the input, with text between its quotes.
C2_Witness ==
    \E i \in 1..Len(result) :
        /\ result[i].ok
        /\ result[i].tok.kind = "String"
        /\ result[i].place # file_start
        /\ Len(result[i].lexeme) >= 3
        /\ result[i].place # ScanPlace

\* The length of the longest run of characters of cs in text from index i on.
RECURSIVE RunLength(_, _, _)
RunLength(text, i, cs) ==
    IF i <= Len(text) /\ text[i] \in cs THEN 1 + RunLength(text, i + 1, cs) ELSE 0

\* At index i of text a run of digits ends in a '.' that no digit follows.
DigitsThenLoneDot(text, i) ==
    LET n == RunLength(text, i, Digits)
    IN  /\ n >= 1
        /\ i + n <= Len(text)
        /\ text[i + n] = "."
        /\ (i + n + 1 <= Len(text) => text[i + n + 1] \notin Digits)

\* C3: a Number token holds a '.' only with a digit right after it; a unit of
\* digits followed by a '.' that no digit follows becomes a Number token whose
\* lexeme is the digits, the '.' stays unconsumed, and the next unit is a Dot
\* token at the column after the digits.
C3_TrailingDotIsNotConsumed ==
    [][/\ PushesToken /\ Last(result').tok.kind = "Number"
            => LET lx == Last(result').lexeme
               IN  \A k \in 1..Len(lx) :
                       lx[k] = "." => k < Len(lx) /\ lx[k + 1] \in Digits
       /\ (pc = "loop" /\ Rest # <<>> /\ DigitsThenLoneDot(source, Consumed + 1))
            => LET n == RunLength(source, Consumed + 1, Digits)
               IN  /\ PushesToken
                   /\ Last(result').tok.kind = "Number"
                   /\ Last(result').lexeme = SubSeq(source, Consumed + 1, Consumed + n)
                   /\ Consumed' = Consumed + n
                   /\ Head(Rest') = "."
       /\ (pc = "loop" /\ Rest # <<>> /\ Head(Rest) = "." /\ result # <<>>
              /\ Last(result).ok /\ Last(result).tok.kind = "Number"
              /\ ScanPlace = [Last(result).place EXCEPT
                                  !.column = @ + Len(Last(result).lexeme)])
            => /\ result' = Append(result, Token(Tok("Dot"), ScanPlace, <<".">>))
               /\ Consumed' = Consumed + 1]_vars

\* Digits and a '.' at the end of the input were lexed as a Number and a Dot.
C3_Witness ==
    /\ pc = "done"
    /\ Len(source) >= 3
    /\ Last(source) = "."
    /\ Len(result) >= 2
    /\ result[Len(result) - 1].ok
    /\ result[Len(result) - 1].tok.kind = "Number"
    /\ Len(result[Len(result) - 1].lexeme) >= 2
    /\ Last(result) = Token(Tok("Dot"),
                            [line |-> 1, column |-> Len(source)], <<".">>)

\* The loop is about to start a unit at a '"'.
AtOpeningQuote == pc = "loop" /\ Rest # <<>> /\ Head(Rest) = "\""

\* The indices of Rest, after the first, that hold a '"'.
ClosingQuotes == {k \in 2..Len(Rest) : Rest[k] = "\""}

\* C4: a string literal that the input ends before closing gives exactly one
\* entry, an UnterminatedString error placed at the opening quote, and no token.
C4_UnterminatedStringAtOpeningQuote ==
    [][(AtOpeningQuote /\ ClosingQuotes = {})
         => /\ result' = Append(result,
                                Error(RefPlace(source, Consumed + 1), UnterminatedString))
            /\ Rest' = <<>>
            /\ pc' = "loop"]_vars

\* An unterminated string that opens after a token, away from the start, and
\* runs over a line end.
C4_Witness ==
    /\ pc = "done"
    /\ Len(result) >= 2
    /\ ~Last(result).ok
    /\ Last(result).kind = UnterminatedString
    /\ Last(result).place # file_start
    /\ scan.line_number > Last(result).place.line
    /\ result[Len(result) - 1].ok

\* C5: a string literal closed by a later '"' gives exactly one entry, a
\* String token whose value is the text between the opening quote and the
\* first '"' after it, newlines and backslashes included as they are, placed
\* at the opening quote.
C5_TerminatedStringIsLiteral ==
    [][(AtOpeningQuote /\ ClosingQuotes # {})
         => LET k == CHOOSE c \in ClosingQuotes : \A d \in ClosingQuotes : c <= d
            IN  /\ result' = Append(result,
                                    Token(Tok_String(SubSeq(Rest, 2, k - 1)),
                                          RefPlace(source, Consumed + 1),
                                          SubSeq(Rest, 1, k)))
                /\ Consumed' = Consumed + k
                /\ Last(result').place # RefPlace(source, Consumed + k)]_vars

\* A string token away from the start whose value holds a newline and ends in
\* a backslash, with more input after its closing quote.
C5_Witness ==
    \E i \in 1..Len(result) :
        /\ result[i].ok
        /\ result[i].tok.kind = "String"
        /\ result[i].place # file_start
        /\ \E k \in 1..Len(result[i].tok.text) : result[i].tok.text[k] = "\n"
        /\ Last(result[i].tok.text) = "\\"
        /\ i < Len(result)

\* The loop is about to start a unit at a '#' that a '!' follows.
AtHashBang ==
    /\ pc = "loop"
    /\ Len(Rest) >= 2
    /\ Rest[1] = "#"
    /\ Rest[2] = "!"

\* text from index i on, without its first line (through the newline, or all
\* of it when it has none).
RECURSIVE AfterLine(_, _)
AfterLine(text, i) ==
    IF i > Len(text) THEN <<>>
    ELSE IF text[i] = "\n" THEN SubSeq(text, i + 1, Len(text))
    ELSE AfterLine(text, i + 1)

\* This step drops the rest of the line and pushes nothing.
DropsLine == result' = result /\ Rest' = AfterLine(Rest, 1)

\* This step pushes an error for the '#' at the head of Rest and takes only it.
RejectsHash ==
    /\ result' = Append(result,
                        Error(RefPlace(source, Consumed + 1), UnexpectedCharacter("#")))
    /\ Rest' = Tail(Rest)

\* C6 as stated: '#' '!' is dropped as a shebang line only at line 1 column 1;
\* anywhere else the '#' is reported as an unexpected character.
C6_ShebangOnlyAtFileStart ==
    [][AtHashBang
         => IF RefPlace(source, Consumed + 1) = file_start
            THEN DropsLine
            ELSE RejectsHash]_vars

\* C6 amended: '#' '!' is dropped as a shebang line, through the end of the
\* line and with no entry, exactly when the '#' is at column 1 of its line,
\* whichever line that is; at any other column the '#' is reported as an
\* unexpected character and only it is consumed.
C6_ShebangAtColumnOne ==
    [][AtHashBang
         => IF RefPlace(source, Consumed + 1).column = 1
            THEN DropsLine
            ELSE RejectsHash]_vars

\* A '#' '!' line after a first line that holds a token was dropped without an
\* entry, and the token on the line after it is the second entry.
C6_Witness ==
    /\ pc = "done"
    /\ Len(source) >= 6
    /\ SubSeq(source, 1, 6) = <<"1", "\n", "#", "!", "\n", "1">>
    /\ Len(result) = 2
    /\ result[2].ok
    /\ result[2].place = [line |-> 3, column |-> 1]

\* The index after the leading lines of text that begin with '#' '!', from
\* the line start i on.
RECURSIVE LeadingEnd(_, _)
LeadingEnd(text, i) ==
    IF i + 1 <= Len(text) /\ text[i] = "#" /\ text[i + 1] = "!"
    THEN LeadingEnd(text, Len(text) - Len(AfterLine(text, i)) + 1)
    ELSE i

\* C7: the leading lines that begin with '#' '!' give no entry, however many
\* they are: every entry lies at or after the first character behind them, and
\* a token that starts the first non-empty line behind them is the first
\* entry, placed at column 1 of the line it is on.
C7_LeadingShebangLinesDropped ==
    LET L == LeadingEnd(source, 1)
        F == L + RunLength(source, L, {"\n"})
    IN  /\ \A i \in 1..Len(result) :
              LET p == result[i].place
                  q == RefPlace(source, L)
              IN  p.line > q.line \/ (p.line = q.line /\ p.column >= q.column)
        /\ (pc = "done" /\ F > Len(source)) => result = <<>>
        /\ (pc = "done" /\ F <= Len(source) /\ source[F] \in Digits \cup {"!"})
              => /\ result # <<>>
                 /\ result[1].ok
                 /\ result[1].lexeme[1] = source[F]
                 /\ result[1].place = RefPlace(source, F)
                 /\ result[1].place.column = 1

\* Two leading '#' '!' lines were dropped and the token after them is at line 3.
C7_Witness ==
    /\ pc = "done"
    /\ LeadingEnd(source, 1) = 7
    /\ source[2] = "!" /\ source[3] = "\n" /\ source[6] = "\n"
    /\ Len(result) = 1
    /\ result[1].ok
    /\ result[1].tok.kind = "Number"
    /\ result[1].place = [line |-> 3, column |-> 1]

\* C8: the position moves by the rule of the data model: a newline leads to
\* (line + 1, 1), a tab to the next column after the current one that is 1
\* modulo 8 (one to eight columns on), any other character to the next column.
\* Place::advance computes this rule, the scanner's position after every loop
\* iteration is the one the rule gives for the text consumed so far, and
\* every entry lex pushes is placed where the rule puts the first character
\* of its unit.
C8_PositionsFollowTabRule ==
    [][/\ ScanPlace' = RefPlace(source, Consumed' + 1)
       /\ \A c \in AlphabetTab \cup {" "} :
              Place_advance(ScanPlace', c) = RefAdvance(ScanPlace', c)
       /\ Place_advance(ScanPlace', "\t").column - ScanPlace'.column \in 1..8
       /\ Len(result') > Len(result)
            => /\ Last(result').place = RefPlace(source, Consumed + 1)
               /\ Last(result').place = ScanPlace]_vars

\* An identifier after one tab at the start of line 2 is at column 9, and one
\* after a further letter and tab is at column 17.
C8_Witness ==
    /\ pc = "done"
    /\ source = <<"\n", "\t", "o", "\t", "o">>
    /\ Len(result) = 2
    /\ result[1].place = [line |-> 2, column |-> 9]
    /\ result[2].place = [line |-> 2, column |-> 17]

\* The loop is about to start a unit at a '/'.
AtSlash == pc = "loop" /\ Rest # <<>> /\ Head(Rest) = "/"

\* C9: a unit that starts with '/' '/' is a comment: it is consumed through
\* the next newline, or through the end of the input when there is none, and
\* pushes nothing; a '/' that no '/' follows is a Slash token and only it is
\* consumed.  After a comment the scanner stands at the true position of the
\* next character, and every token is placed at the true position of its
\* first character.
C9_CommentDroppedThroughNewline ==
    [][/\ (AtSlash /\ Len(Rest) >= 2 /\ Rest[2] = "/")
            => /\ DropsLine
               /\ pc' = "loop"
               /\ ScanPlace' = RefPlace(source, Consumed' + 1)
       /\ (AtSlash /\ (Len(Rest) >= 2 => Rest[2] # "/"))
            => /\ result' = Append(result,
                                   Token(Tok("Slash"), RefPlace(source, Consumed + 1),
                                         <<"/">>))
               /\ Rest' = Tail(Rest)
       /\ PushesToken => Last(result').place = RefPlace(source, Consumed + 1)]_vars

\* A comment line was dropped and the identifier on the next line, after a
\* space, is the only entry, at line 2 column 2.
C9_Witness ==
    /\ pc = "done"
    /\ source = <<"/", "/", "o", "\n", " ", "o">>
    /\ result = <<Token(Tok_Identifier(<<"o">>), [line |-> 2, column |-> 2], <<"o">>)>>

\* The keyword spellings and their kinds, as the data model lists them.
RefKeywords ==
    {<<<<"a", "n", "d">>, "And">>, <<<<"c", "l", "a", "s", "s">>, "Class">>,
     <<<<"e", "l", "s", "e">>, "Else">>, <<<<"f", "a", "l", "s", "e">>, "False">>,
     <<<<"f", "o", "r">>, "For">>, <<<<"f", "u", "n">>, "Fun">>, <<<<"i", "f">>, "If">>,
     <<<<"n", "i", "l">>, "Nil">>, <<<<"o", "r">>, "Or">>,
     <<<<"p", "r", "i", "n", "t">>, "Print">>,
     <<<<"r", "e", "t", "u", "r", "n">>, "Return">>,
     <<<<"s", "u", "p", "e", "r">>, "Super">>, <<<<"t", "h", "i", "s">>, "This">>,
     <<<<"t", "r", "u", "e">>, "True">>, <<<<"v", "a", "r">>, "Var">>,
     <<<<"w", "h", "i", "l", "e">>, "While">>}

\* The kind of the word text: its keyword kind, or Identifier(text).
RefWordTok(text) ==
    IF \E kw \in RefKeywords : kw[1] = text
    THEN [kind |-> (CHOOSE kw \in RefKeywords : kw[1] = text)[2],
          text |-> <<>>, val |-> NoValue]
    ELSE [kind |-> "Identifier", text |-> text, val |-> NoValue]

\* C10: a unit that starts with an ASCII letter or '_' consumes the longest
\* run of ASCII letters, digits and underscores and pushes one token for it:
\* the keyword kind when the whole run is a keyword spelling, case and all,
\* and Identifier(run) otherwise.
C10_WordIsMaximalRunAndExactKeyword ==
    [][(pc = "loop" /\ Rest # <<>> /\ Head(Rest) \in AsciiAlphabetic \cup {"_"})
         => LET n == RunLength(source, Consumed + 1, AsciiAlphanumeric \cup {"_"})
                run == SubSeq(source, Consumed + 1, Consumed + n)
            IN  /\ result' = Append(result,
                                    Token(RefWordTok(run),
                                          RefPlace(source, Consumed + 1), run))
                /\ Consumed' = Consumed + n]_vars

\* The keyword true, then its capitalised spelling as an identifier.
C10_Witness ==
    /\ Len(result) = 2
    /\ result[1].tok = Tok("True")
    /\ result[2].tok = Tok_Identifier(<<"T", "r", "u", "e">>)
    /\ result[2].place = [line |-> 1, column |-> 6]

\* The one-character and the two-character kind of each operator character.
RefOperators ==
    {<<"!", "Bang", "BangEqual">>, <<"=", "Equal", "EqualEqual">>,
     <<"<", "Less", "LessEqual">>, <<">", "Greater", "GreaterEqual">>}

\* C11: a unit that starts with '!', '=', '<' or '>' takes a following '='
\* with it and is the two-character kind with a two-character lexeme; with
\* anything else next, or nothing, it is the one-character kind and only the
\* one character is consumed.
C11_OperatorTakesOneTrailingEqual ==
    [][\A op \in RefOperators :
          (pc = "loop" /\ Rest # <<>> /\ Head(Rest) = op[1])
             => IF Len(Rest) >= 2 /\ Rest[2] = "="
                THEN /\ result' = Append(result,
                                         Token(Tok(op[3]), RefPlace(source, Consumed + 1),
                                               <<op[1], "=">>))
                     /\ Rest' = Tail(Tail(Rest))
                ELSE /\ result' = Append(result,
                                         Token(Tok(op[2]), RefPlace(source, Consumed + 1),
                                               <<op[1]>>))
                     /\ Rest' = Tail(Rest)]_vars

\* '=' '=' '=' was lexed as EqualEqual and then Equal.
C11_Witness ==
    /\ pc = "done"
    /\ source = <<"=", "=", "=">>
    /\ result = <<Token(Tok("EqualEqual"), [line |-> 1, column |-> 1], <<"=", "=">>),
                  Token(Tok("Equal"), [line |-> 1, column |-> 3], <<"=">>)>>

\* text is a non-empty run of digits.
AllDigits(text) == text # <<>> /\ \A k \in 1..Len(text) : text[k] \in Digits

\* C12: an input that is a non-empty run of decimal digits gives exactly one
\* entry, a Number token at line 1 column 1 whose lexeme is the whole input.
C12_DigitsAreOneNumber ==
    (pc = "done" /\ AllDigits(source))
        => /\ Len(result) = 1
           /\ result[1].ok
           /\ result[1].tok.kind = "Number"
           /\ result[1].place = [line |-> 1, column |-> 1]
           /\ result[1].lexeme = source

\* A run of four digits was lexed as one Number token.
C12_Witness ==
    /\ pc = "done"
    /\ Len(source) = 4
    /\ AllDigits(source)
    /\ result = <<Token(result[1].tok, [line |-> 1, column |-> 1], source)>>
    /\ result[1].tok.kind = "Number"

\* text is digits, a '.', and digits, both runs non-empty.
DigitsDotDigits(text) ==
    \E d \in 2..(Len(text) - 1) :
        /\ text[d] = "."
        /\ \A k \in (1..Len(text)) \ {d} : text[k] \in Digits

\* C13: an input of the form digits '.' digits gives exactly one entry, a
\* Number token whose lexeme is the whole input.
C13_DecimalIsOneNumber ==
    (pc = "done" /\ DigitsDotDigits(source))
        => /\ Len(result) = 1
           /\ result[1].ok
           /\ result[1].tok.kind = "Number"
           /\ result[1].lexeme = source

\* The characters the coming calls of take() return, until it returns none.
RECURSIVE TakeSequence(_)
TakeSequence(s) ==
    LET t == take(s)
    IN  IF t.ret = None THEN <<>> ELSE <<t.ret>> \o TakeSequence(t.scan)

\* What a client can read of the scanner's position and token.
Observable(s) ==
    <<s.line_number, s.column, current_token(s), token_start(s)>>

\* C14: whatever methods were called on the scanner, current_token() is the
\* text take() handed out since the last start_token() (since construction if
\* there was none): the part of the source from that mark to the scanner's
\* position.  Characters that were only peeked lie behind that position.
C14_CurrentTokenIsTakenSinceMark ==
    pc = "scan" =>
        /\ mark <= Len(source) - Len(TakeSequence(scan))
        /\ current_token(scan)
              = SubSeq(source, mark + 1, Len(source) - Len(TakeSequence(scan)))
        /\ source = SubSeq(source, 1, Len(source) - Len(TakeSequence(scan)))
                       \o TakeSequence(scan)

\* After a start_token() in mid-text and a take, two characters are peeked and
\* the token holds the taken one only.
C14_Witness ==
    /\ pc = "scan"
    /\ call.name = "peek2"
    /\ mark = 1
    /\ Len(scan.lookahead) = 2
    /\ current_token(scan) = SubSeq(source, 2, 2)

\* C15: peek(), peek2() and is_empty() consume nothing: line, column,
\* accumulator and token start stay as they were and the coming take()s return
\* what they would have returned.  peek() returns the next character, is_empty()
\* tells whether there is none, and peek2() returns the next two, or none when
\* fewer than two remain, the one that remains staying in place.
C15_PeeksConsumeNothing ==
    [][(pc = "scan" /\ call'.name \in {"peek", "peek2", "is_empty"})
          => LET coming == TakeSequence(scan)
             IN  /\ Observable(scan') = Observable(scan)
                 /\ TakeSequence(scan') = coming
                 /\ mark' = mark
                 /\ call'.name = "peek"
                       => call'.ret = IF coming = <<>> THEN None ELSE coming[1]
                 /\ call'.name = "is_empty"
                       => call'.ret = (coming = <<>>)
                 /\ call'.name = "peek2"
                       => call'.ret = IF Len(coming) < 2 THEN None2
                                      ELSE <<coming[1], coming[2]>>]_vars

\* peek2() found one character only, on the second line, returned none and
\* left that character to be taken.
C15_Witness ==
    /\ pc = "scan"
    /\ call.name = "peek2"
    /\ call.ret = None2
    /\ scan.line_number = 2
    /\ current_token(scan) # <<>>
    /\ TakeSequence(scan) = <<"b">>

\* The test a take_if() or take_exactly() call was made with, as a set.
CallTest == IF call.name = "take_exactly" THEN {call.arg} ELSE call.arg

\* C16: take_if(f) and take_exactly(c) consume exactly the next character when
\* there is one and it passes the test, and return it (take_exactly: true);
\* otherwise they return none (take_exactly: false) and what a client can
\* read of the scanner, and the coming take()s, are as before.
C16_TakeIfTakesOneOrNothing ==
    [][(pc = "scan" /\ call'.name \in {"take_if", "take_exactly"})
          => LET coming == TakeSequence(scan)
                 passes == coming # <<>> /\ coming[1] \in CallTest'
             IN  IF passes
                 THEN /\ TakeSequence(scan') = Tail(coming)
                      /\ current_token(scan') = Append(current_token(scan), coming[1])
                      /\ token_start(scan') = token_start(scan)
                      /\ call'.ret = IF call'.name = "take_exactly" THEN TRUE
                                     ELSE coming[1]
                 ELSE /\ TakeSequence(scan') = coming
                      /\ Observable(scan') = Observable(scan)
                      /\ call'.ret = IF call'.name = "take_exactly" THEN FALSE
                                     ELSE None]_vars

\* take_exactly('\n') consumed the newline that ends the first line.
C16_Witness ==
    /\ pc = "scan"
    /\ call.name = "take_exactly"
    /\ call.arg = "\n"
    /\ call.ret = TRUE
    /\ current_token(scan) = <<"a", "\n">>
    /\ scan.line_number = 2
    /\ scan.column = 1
    /\ TakeSequence(scan) # <<>>

\* The number of characters take_until(f) is to consume from text: through the
\* first one in f, or all of them.
UntilLength(text, f) ==
    IF \E k \in 1..Len(text) : text[k] \in f
    THEN CHOOSE k \in 1..Len(text) :
             /\ text[k] \in f
             /\ \A j \in 1..(k - 1) : text[j] \notin f
    ELSE Len(text)

\* C17: take_until(f) consumes the characters up to and including the first
\* one that satisfies f, and all that remain when none does.
C17_TakeUntilThroughTerminator ==
    [][(pc = "scan" /\ call'.name = "take_until")
          => LET coming == TakeSequence(scan)
                 n == UntilLength(coming, call'.arg)
             IN  /\ TakeSequence(scan') = SubSeq(coming, n + 1, Len(coming))
                 /\ current_token(scan')
                       = current_token(scan) \o SubSeq(coming, 1, n)
                 /\ token_start(scan') = token_start(scan)]_vars

\* take_until() stopped behind the first newline with text left over.
C17_Witness ==
    /\ pc = "scan"
    /\ call.name = "take_until"
    /\ call.arg = {"\n"}
    /\ current_token(scan) = <<"a", "b", "\n">>
    /\ TakeSequence(scan) = <<"\n">>

\* Position p comes before position q.
PlaceBefore(p, q) ==
    \/ p.line < q.line
    \/ p.line = q.line /\ p.column < q.column

\* The position behind text when text starts at p.
RECURSIVE AdvanceOver(_, _)
AdvanceOver(p, text) ==
    IF text = <<>> THEN p ELSE AdvanceOver(RefAdvance(p, Head(text)), Tail(text))

\* The position behind the text entry e stands for: a token's lexeme, the one
\* character of an UnexpectedCharacter, the rest of the input for an
\* UnterminatedString.
EntryEnd(e) ==
    IF e.ok THEN AdvanceOver(e.place, e.lexeme)
    ELSE IF e.kind.kind = "UnexpectedCharacter" THEN RefAdvance(e.place, e.kind.ch)
    ELSE RefPlace(source, Len(source) + 1)

\* C18: the entries of the result are in source order: each entry's place
\* comes strictly after the place of the entry before it, and not before the
\* end of the text that entry consumed.
C18_EntriesInSourceOrder ==
    \A i \in 1..(Len(result) - 1) :
        /\ PlaceBefore(result[i].place, result[i + 1].place)
        /\ ~PlaceBefore(result[i + 1].place, EntryEnd(result[i]))

\* A string over two lines and an unexpected character right behind it on
\* line 2.
C18_Witness ==
    /\ pc = "done"
    /\ Len(result) = 2
    /\ result[1].ok /\ result[1].tok.kind = "String"
    /\ result[1].place = [line |-> 1, column |-> 1]
    /\ ~result[2].ok
    /\ result[2].place = [line |-> 2, column |-> 2]

\* What is left to consume after one more iteration of the loop of lex().
RestAfterIteration ==
    TakeSequence(LoopBody(is_empty(scan).scan, debug_assertions).scan)

\* C19: lex() terminates: it returns in the end; in every state where its loop
\* test passes, the iteration that follows consumes at least one character; and
\* it returns only when nothing is left to consume.
C19_LexTerminates ==
    /\ <>(pc = "done")
    /\ []((pc = "loop" /\ Rest # <<>>)
             => (IterateEnabled /\ Len(RestAfterIteration) < Len(Rest)))
    /\ [][/\ (pc = "loop" /\ Rest # <<>>)
                => (pc' = "loop" /\ Rest' = RestAfterIteration)
          /\ pc' = "done" => (Rest = <<>> /\ Rest' = <<>>)]_vars

\* lex() returned after two iterations over a two-character text.
C19_Witness ==
    /\ pc = "done"
    /\ Len(source) = 2
    /\ Len(result) = 2
    /\ Rest = <<>>

\* The tokens among the entries, in order.
RECURSIVE Tokens(_)
Tokens(entries) ==
    IF entries = <<>> THEN <<>>
    ELSE IF Head(entries).ok THEN <<Head(entries)>> \o Tokens(Tail(entries))
    ELSE Tokens(Tail(entries))

\* Kind, lexeme and start line of the tokens of the eager result.
EagerView ==
    [i \in 1..Len(Tokens(result)) |->
        [kind |-> Tokens(result)[i].tok.kind,
         lexeme |-> Tokens(result)[i].lexeme,
         line |-> Tokens(result)[i].place.line]]

\* Kind, lexeme and start line of the tokens pulled from the lazy lexer.
LazyView ==
    [i \in 1..Len(pulled) |->
        [kind |-> pulled[i].tok.kind,
         lexeme |-> pulled[i].lexeme,
         line |-> pulled[i].line]]

\* C21: once lex() of lex.rs has returned and the Lexer of scanner.rs can be
\* pulled no further, the Lexer has come to its end (None) and the tokens
\* pulled have the kinds, lexemes and start lines of the tokens of the eager
\* result, in the same order.
C21_LazyEqualsEager ==
    (pc = "done" /\ lpc # "pull") => (lpc = "end" /\ LazyView = EagerView)

\* The characters this step consumes.
ConsumedInStep == SubSeq(source, Consumed + 1, Consumed')

\* C22: the scanner's position and its recorded token start are 1-based in
\* every state; no step lowers the line number or the token start line; and a
\* step that brings the column to 1 (from another column, or while consuming)
\* consumed a newline last.
C22_PositionsOneBasedAndMonotone ==
    /\ [](pc = "scan" =>
            /\ scan.line_number >= 1 /\ scan.column >= 1
            /\ scan.token_start_line >= 1 /\ scan.token_start_column >= 1
            /\ scan.token_start_line <= scan.line_number)
    /\ [][pc = "scan" =>
            /\ scan'.line_number >= scan.line_number
            /\ scan'.token_start_line >= scan.token_start_line
            /\ (scan'.column = 1 /\ (scan.column # 1 \/ ConsumedInStep # <<>>))
                  => (ConsumedInStep # <<>> /\ Last(ConsumedInStep) = "\n")
            /\ (ConsumedInStep # <<>> /\ Last(ConsumedInStep) = "\n")
                  => scan'.column = 1]_vars

\* Two newlines were consumed, the token start was recorded on line 2, and the
\* scanner stands at column 1 of line 3.
C22_Witness ==
    /\ pc = "scan"
    /\ scan.line_number = 3
    /\ scan.column = 1
    /\ scan.token_start_line = 2
    /\ scan.token_start_column = 2

\* C23: under any order of peeks and takes, the characters take() has
\* returned, then the lookahead buffer, then what is left of the underlying
\* source, are the original input: take() hands out the input's characters in
\* order, each once.
C23_LookaheadIsFifo ==
    pc = "scan" => taken \o scan.lookahead \o scan.input = source

\* Two characters were taken through the buffer, one more is buffered and one
\* is still in the underlying source.
C23_Witness ==
    /\ pc = "scan"
    /\ source = <<"a", "b", "\n", "a">>
    /\ call.name = "take"
    /\ taken = <<"a", "b">>
    /\ scan.lookahead = <<"\n">>
    /\ scan.input = <<"a">>

\* At index i of text a run of digits is followed by a '.' and a digit.
DigitsDotDigit(text, i) ==
    LET n == RunLength(text, i, Digits)
    IN  /\ n >= 1
        /\ i + n + 1 <= Len(text)
        /\ text[i + n] = "."
        /\ text[i + n + 1] \in Digits

\* C24: in either build, a unit of digits followed by '.' and a digit is
\* consumed through the '.' and the digits behind it and becomes one Number
\* token with all of that as its lexeme.
C24_DotConsumedInEveryBuild ==
    [][(pc = "loop" /\ Rest # <<>> /\ DigitsDotDigit(source, Consumed + 1))
          => LET n == RunLength(source, Consumed + 1, Digits)
                 m == RunLength(source, Consumed + n + 2, Digits)
             IN  /\ PushesToken
                 /\ Last(result').tok.kind = "Number"
                 /\ Last(result').lexeme
                       = SubSeq(source, Consumed + 1, Consumed + n + 1 + m)
                 /\ Consumed' = Consumed + n + 1 + m]_vars

\* The kinds of token that are literals.
LiteralKinds == {"Number", "String", "True", "False", "Nil"}

\* The literal a token of a literal kind stands for.
RefLiteral(token) ==
    IF token.tok.kind = "Number" THEN [is |-> "Number", n |-> token.tok.val]
    ELSE IF token.tok.kind = "String" THEN [is |-> "String", s |-> token.tok.text]
    ELSE IF token.tok.kind = "Nil" THEN [is |-> "Nil"]
    ELSE [is |-> "Bool", b |-> token.tok.kind = "True"]

IsUnterminated(i) == ~result[i].ok /\ result[i].kind.kind = "UnterminatedString"

\* C26: the result holds at most one UnterminatedString error, and one that
\* is there is the last entry, at every point of the run: all the input has
\* been consumed when it is pushed, so nothing comes after it.
C26_UnterminatedStringIsLast ==
    \A i \in 1..Len(result) :
        IsUnterminated(i) => (i = Len(result) /\ Rest = <<>>)

\* A string, and then an unclosed literal that runs over a newline to the end
\* of the input.
C26_Witness ==
    /\ pc = "done"
    /\ Len(result) = 2
    /\ result[1].ok /\ result[1].tok.kind = "String"
    /\ IsUnterminated(2)
    /\ result[2].place = [line |-> 1, column |-> 3]
    /\ scan.line_number = 2

\* unit is text the lexer skips: one whitespace character, or a comment or a
\* shebang line through its newline (or the end of the input).
SkippedUnit(unit) ==
    \/ Len(unit) = 1 /\ unit[1] \in Whitespace
    \/ /\ Len(unit) >= 2
       /\ <<unit[1], unit[2]>> \in {<<"/", "/">>, <<"#", "!">>}
       /\ \A k \in 1..(Len(unit) - 1) : unit[k] # "\n"
       /\ Last(unit) = "\n" \/ Rest' = <<>>

\* unit is the text the entry e stands for: a token's lexeme, the character
\* of an UnexpectedCharacter, the unclosed literal of an UnterminatedString.
EntryUnit(e, unit) ==
    IF e.ok THEN e.lexeme = unit
    ELSE IF e.kind.kind = "UnexpectedCharacter" THEN unit = <<e.kind.ch>>
    ELSE unit[1] = "\"" /\ Rest' = <<>> /\ \A k \in 2..Len(unit) : unit[k] # "\""

\* C27: the loop iterations cut the input into units that follow one another
\* without gap or overlap; each unit is non-empty and is either skipped, with
\* nothing pushed, or pushes exactly one entry whose text (a non-empty lexeme,
\* the unexpected character, the unclosed literal) is the unit; lex() returns
\* when the units have covered the input.
C27_UnitsPartitionTheInput ==
    [][/\ pc = "loop" =>
            /\ source = SubSeq(source, 1, Consumed) \o Rest
            /\ source = SubSeq(source, 1, Consumed') \o Rest'
       /\ (pc = "loop" /\ pc' = "loop") =>
            /\ ConsumedInStep # <<>>
            /\ \/ result' = result /\ SkippedUnit(ConsumedInStep)
               \/ /\ Len(result') = Len(result) + 1
                  /\ SubSeq(result', 1, Len(result)) = result
                  /\ EntryUnit(Last(result'), ConsumedInStep)
       /\ pc' = "done" => (Consumed' = Len(source) /\ result' = result)]_vars

\* A comment line was skipped, then a number and an unexpected character
\* gave one entry each.
C27_Witness ==
    /\ pc = "done"
    /\ source = <<"/", "/", "\n", "1", "#">>
    /\ Len(result) = 2
    /\ result[1].ok
    /\ result[1].lexeme = <<"1">>
    /\ ~result[2].ok
    /\ result[2].place = [line |-> 2, column |-> 2]

\* C28: started together at (1, 1) and fed the same characters, the position
\* kept by Scan::take and the Place moved by Place::advance agree after every
\* character; tabs are met at every column.
C28_TakeAndAdvanceAgree ==
    pc = "advance" => advanced = [line |-> scan.line_number, column |-> scan.column]

\* Both stand at column 17 of line 2 after a newline, seven characters that
\* end at column 8 and a tab.
C28_Witness ==
    /\ pc = "advance"
    /\ Len(source) = 9
    /\ source[1] = "\n"
    /\ source[8] = "o"
    /\ source[9] = "\t"
    /\ scan.input = <<>>
    /\ advanced.line = 2
    /\ scan.column = 17

\* The characters a word starts with.
WordStart == AsciiAlphabetic \cup {"_"}

====
